---- MODULE Spec2Model ----
(***************************************************************************)
(* A model of backend/open_webui/socket/utils.py: RedisLock, an expiring   *)
(* lock kept in one Redis key, and RedisDict, a mapping kept in one Redis  *)
(* hash with JSON-encoded values.  The Redis server is modelled by its     *)
(* keyspace and by the commands the module sends (SET NX/XX EX, GET, DEL,  *)
(* HSET, HGET, HDEL, HEXISTS, HLEN) and by the passing of time, which      *)
(* expires keys.  Python values are strings here: "True", "False", "None". *)
(***************************************************************************)
EXTENDS Integers, Sequences, FiniteSets, TLC

(* ---------------------------------------------------------------- bounds *)

\* The largest timeout_secs a RedisLock is constructed with.
MaxTimeout == 2

(* ------------------------------------------------------- RedisLock: data *)

\* The RedisLock instances of the model, all on one Redis server.
Inst == {"A", "B", "C"}

\* self.lock_name: A and B contend for one name, C uses another.
lock_name == [i \in Inst |-> IF i = "C" THEN "job-2" ELSE "job-1"]

LockNames == {lock_name[i] : i \in Inst}

\* self.lock_id = str(uuid.uuid4()): one token per instance, all distinct.
lock_id == [i \in Inst |-> "uuid-" \o i]

\* A Redis string key that does not exist (GET answers None).  ttl is the
\* number of seconds the key has left; -1 is Redis's "no expiry".
Nil == [val |-> "None", ttl |-> 0]

NoExpiry == -1

VARIABLES
    store,          \* the Redis string keys: lock name -> [val, ttl] or Nil
    timeout_secs,   \* self.timeout_secs of each instance
    lock_obtained,  \* self.lock_obtained of each instance
    pc,             \* where each instance is inside release_lock
    lock_value,     \* release_lock's local lock_value
    lastLock,       \* history: the last lock step, its result, the record before it
    winners,        \* history: who acquired since the record was last absent
    lease,          \* history: seconds left of the last acquire/renew/release
    freed,          \* history: the owner's release removed the record, no acquire since
    hand            \* history: progress through the hand-over scenario

lockVars == <<store, timeout_secs, lock_obtained, pc, lock_value,
              lastLock, winners, lease, freed, hand>>

VARIABLES
    hash,       \* the Redis hash self.name: field -> JSON text or NoField
    dpc,        \* where each client is inside setdefault() or update()
    lastDict,   \* history: the last mapping step and its result
    shadow,     \* history: the value last written to each key, NoValue
                \* once deleted or cleared, and whether that write replaced
                \* a different value
    twice       \* history: progress through two setdefault() calls on one key

dictVars == <<hash, dpc, lastDict, shadow, twice>>

VARIABLES
    redis_url,  \* get_redis_connection's URL, as a sequence of its parts
    sentinels,  \* its list of (host, port) Sentinel addresses
    returned    \* what the call gave back: a connection, or an exception

urlVars == <<redis_url, sentinels, returned>>

vars == <<lockVars, dictVars, urlVars>>

\* Python truthiness of the values the model uses.
Truthy(v) == v \notin {"None", "False", ""}

(* ---------------------------------------------------- the Redis commands *)

\* SET key value [NX|XX] [EX seconds] as redis-py's set(): the new keyspace
\* and the reply, True when the key was written and None when NX or XX held
\* it back.  Without EX the key is written with no expiry.
RedisSet(db, key, value, nx, xx, ex) ==
    LET exists == db[key] # Nil
        write  == /\ (nx => ~exists)
                  /\ (xx => exists)
    IN  IF write
        THEN [db |-> [db EXCEPT ![key] = [val |-> value, ttl |-> ex]], reply |-> "True"]
        ELSE [db |-> db, reply |-> "None"]

\* GET key: the value, or None for a key that does not exist.
RedisGet(db, key) == db[key].val

\* DEL key.
RedisDelete(db, key) == [db EXCEPT ![key] = Nil]

\* One second passes on the server: every key with an expiry loses a second
\* and a key whose time is up is gone.
RedisExpire(db) ==
    [k \in DOMAIN db |->
        IF db[k] = Nil \/ db[k].ttl = NoExpiry THEN db[k]
        ELSE IF db[k].ttl <= 1 THEN Nil
        ELSE [db[k] EXCEPT !.ttl = @ - 1]]

(* ------------------------------------------------- RedisLock: operations *)

\* aquire_lock with ex= left out: SET NX, a record that never expires.
aquire_lock_set_no_ex(db, i) ==
    RedisSet(db, lock_name[i], lock_id[i], TRUE, FALSE, NoExpiry)

\* aquire_lock with nx=True left out: a plain SET EX.
aquire_lock_set_no_nx(db, i) ==
    RedisSet(db, lock_name[i], lock_id[i], FALSE, FALSE, timeout_secs[i])

\* aquire_lock made re-entrant: a record that carries the caller's own token
\* is set again, which renews its TTL.
aquire_lock_set_reentrant(db, i) ==
    IF db[lock_name[i]].val = lock_id[i]
    THEN RedisSet(db, lock_name[i], lock_id[i], FALSE, TRUE, timeout_secs[i])
    ELSE RedisSet(db, lock_name[i], lock_id[i], TRUE, FALSE, timeout_secs[i])

\* aquire_lock's store call: set(lock_name, lock_id, nx=True, ex=timeout_secs).
aquire_lock_set(db, i) ==
    RedisSet(db, lock_name[i], lock_id[i], TRUE, FALSE, timeout_secs[i])

\* renew_lock with ex= left out: SET XX, which leaves the key without expiry.
renew_lock_set_no_ex(db, i) ==
    RedisSet(db, lock_name[i], lock_id[i], FALSE, TRUE, NoExpiry)

\* renew_lock that renews only a record carrying the caller's own token.
renew_lock_set_owned(db, i) ==
    IF db[lock_name[i]].val = lock_id[i]
    THEN RedisSet(db, lock_name[i], lock_id[i], FALSE, TRUE, timeout_secs[i])
    ELSE [db |-> db, reply |-> "None"]

\* renew_lock's store call: set(lock_name, lock_id, xx=True, ex=timeout_secs).
renew_lock_set(db, i) ==
    RedisSet(db, lock_name[i], lock_id[i], FALSE, TRUE, timeout_secs[i])

\* release_lock with the comparison left out: if lock_value.
release_lock_owns_any(i, value) == Truthy(value)

\* release_lock's test: if lock_value and lock_value == self.lock_id.
release_lock_owns(i, value) == Truthy(value) /\ value = lock_id[i]

\* release_lock with the delete left out.
release_lock_delete_skipped(db, i) == db

\* release_lock's delete: self.redis.delete(self.lock_name).
release_lock_delete(db, i) == RedisDelete(db, lock_name[i])

(* --------------------------------------------------- RedisLock: history *)

\* What one step did: the operation, the instance, what it returned (for
\* release's read, the value read), and the instance's record before and
\* after the step.
LockEvent(op, i, ret, db, db2) ==
    [op |-> op, inst |-> i, ret |-> ret,
     pre |-> db[lock_name[i]], post |-> db2[lock_name[i]],
     freed |-> freed[lock_name[i]]]

NoEvent == [op |-> "none", inst |-> "A", ret |-> "None", pre |-> Nil, post |-> Nil,
            freed |-> FALSE]

TickEvent == [NoEvent EXCEPT !.op = "tick"]

OnName(ev, n) == ev.op \notin {"none", "tick"} /\ lock_name[ev.inst] = n

\* The hand-over scenario of the specification, as a pattern over the steps
\* on one name: X acquires an absent record, Y acquires, X releases (its read,
\* then its delete), Y acquires; h is the part matched so far.
HandNext(h, ev) ==
    CASE Len(h) = 0 -> ev.op = "acquire" /\ ev.pre = Nil
      [] Len(h) = 1 -> /\ ev.op = "acquire"
                       /\ ev.inst # h[1].inst
                       /\ lock_name[ev.inst] = lock_name[h[1].inst]
      [] Len(h) = 2 -> ev.op = "release" /\ ev.inst = h[1].inst
      [] Len(h) = 3 -> ev.op = "delete" /\ ev.inst = h[1].inst
      [] Len(h) = 4 -> ev.op = "acquire" /\ ev.inst = h[2].inst
      [] OTHER -> FALSE

\* The history after a step ev that left the keyspace db2.
Observe(ev, db2) ==
    /\ lastLock' = ev
    /\ winners' = [n \in LockNames |->
            IF db2[n] = Nil THEN {}
            ELSE IF ev.op = "acquire" /\ OnName(ev, n) /\ Truthy(ev.ret)
                 THEN winners[n] \cup {ev.inst}
                 ELSE winners[n]]
    /\ lease' = [n \in LockNames |->
            IF ev.op = "tick" THEN (IF lease[n] > 0 THEN lease[n] - 1 ELSE 0)
            ELSE IF ev.op \in {"acquire", "renew"} /\ OnName(ev, n) /\ Truthy(ev.ret)
                 THEN timeout_secs[ev.inst]
            ELSE IF ev.op = "delete" /\ OnName(ev, n) THEN 0
            ELSE lease[n]]
    /\ freed' = [n \in LockNames |->
            IF ev.op = "delete" /\ OnName(ev, n)
            THEN freed[n] \/ (ev.pre # Nil /\ ev.pre.val = lock_id[ev.inst])
            ELSE IF ev.op = "acquire" /\ OnName(ev, n) THEN FALSE
            ELSE freed[n]]
    /\ hand' = IF ev.op = "tick" THEN <<>>
               ELSE IF Len(hand) > 0 /\ ~OnName(ev, lock_name[hand[1].inst]) THEN hand
               ELSE IF HandNext(hand, ev) THEN Append(hand, ev)
               ELSE IF HandNext(<<>>, ev) THEN <<ev>>
               ELSE <<>>

(* ------------------------------------------------- RedisLock: the steps *)

\* aquire_lock that records only a success: if reply: self.lock_obtained = True.
AquireLockFlagOnSuccess(i) ==
    /\ pc[i] = "idle"
    /\ LET r == aquire_lock_set(store, i)
       IN  /\ store' = r.db
           /\ lock_obtained' = IF Truthy(r.reply)
                                THEN [lock_obtained EXCEPT ![i] = "True"]
                                ELSE lock_obtained
           /\ Observe(LockEvent("acquire", i, r.reply, store, r.db), r.db)
    /\ UNCHANGED <<timeout_secs, pc, lock_value>>
    /\ UNCHANGED <<dictVars, urlVars>>

\* aquire_lock(): one SET NX EX; lock_obtained becomes the reply, which is
\* also what the call returns.
AquireLock(i) ==
    /\ pc[i] = "idle"
    /\ LET r == aquire_lock_set(store, i)
       IN  /\ store' = r.db
           /\ lock_obtained' = [lock_obtained EXCEPT ![i] = r.reply]
           /\ Observe(LockEvent("acquire", i, r.reply, store, r.db), r.db)
    /\ UNCHANGED <<timeout_secs, pc, lock_value>>
    /\ UNCHANGED <<dictVars, urlVars>>

\* renew_lock(): one SET XX EX; returns the reply.
RenewLock(i) ==
    /\ pc[i] = "idle"
    /\ LET r == renew_lock_set(store, i)
       IN  /\ store' = r.db
           /\ Observe(LockEvent("renew", i, r.reply, store, r.db), r.db)
    /\ UNCHANGED <<timeout_secs, lock_obtained, pc, lock_value>>
    /\ UNCHANGED <<dictVars, urlVars>>

\* release_lock(), first store call: lock_value = get(lock_name), then the
\* test; the call is over (it returns None) unless the test passes.
ReleaseRead(i) ==
    /\ pc[i] = "idle"
    /\ LET v == RedisGet(store, lock_name[i])
       IN  /\ IF release_lock_owns(i, v)
              THEN /\ pc' = [pc EXCEPT ![i] = "delete"]
                   /\ lock_value' = [lock_value EXCEPT ![i] = v]
              ELSE UNCHANGED <<pc, lock_value>>
           /\ Observe(LockEvent("release", i, v, store, store), store)
    /\ UNCHANGED <<store, timeout_secs, lock_obtained>>
    /\ UNCHANGED <<dictVars, urlVars>>

\* release_lock(), second store call: delete(lock_name).
ReleaseDelete(i) ==
    /\ pc[i] = "delete"
    /\ LET db2 == release_lock_delete(store, i)
       IN  /\ store' = db2
           /\ Observe(LockEvent("delete", i, "None", store, db2), db2)
    /\ pc' = [pc EXCEPT ![i] = "idle"]
    /\ lock_value' = [lock_value EXCEPT ![i] = "None"]
    /\ UNCHANGED <<timeout_secs, lock_obtained>>
    /\ UNCHANGED <<dictVars, urlVars>>

\* A second passes on the Redis server.
Tick ==
    /\ store' = RedisExpire(store)
    /\ Observe(TickEvent, RedisExpire(store))
    /\ UNCHANGED <<timeout_secs, lock_obtained, pc, lock_value>>
    /\ UNCHANGED <<dictVars, urlVars>>

\* After RedisLock.__init__ of every instance, on a server with no lock key.
LockInit ==
    /\ store = [n \in LockNames |-> Nil]
    /\ timeout_secs \in [Inst -> 1..MaxTimeout]
    /\ lock_obtained = [i \in Inst |-> "False"]
    /\ pc = [i \in Inst |-> "idle"]
    /\ lock_value = [i \in Inst |-> "None"]
    /\ lastLock = NoEvent
    /\ winners = [n \in LockNames |-> {}]
    /\ lease = [n \in LockNames |-> 0]
    /\ freed = [n \in LockNames |-> FALSE]
    /\ hand = <<>>

NextLock ==
    \/ \E i \in Inst : AquireLock(i)
    \/ \E i \in Inst : RenewLock(i)
    \/ \E i \in Inst : ReleaseRead(i)
    \/ \E i \in Inst : ReleaseDelete(i)
    \/ Tick

(* ------------------------------------------------ RedisDict: the values *)

\* Python values, tagged with their type, the payload in a field named
\* after the type.  A dict is the sequence of its <<key, value>> pairs in
\* insertion order.
PyNone == [t |-> "NoneType"]
PyBool(b) == [t |-> "bool", bool |-> b]
PyInt(n) == [t |-> "int", int |-> n]
PyStr(str) == [t |-> "str", str |-> str]
PyList(elems) == [t |-> "list", list |-> elems]
PyTuple(elems) == [t |-> "tuple", tuple |-> elems]
PyDict(pairs) == [t |-> "dict", dict |-> pairs]

\* What a call gives back: a value, or an exception.
Return(value) == [kind |-> "return", val |-> value]
Raise(exc) == [kind |-> "raise", val |-> PyStr(exc)]

\* The largest integer the model's values hold.
MaxInt == 2

\* The JSON values the mapping's callers store, and two values json.dumps
\* accepts that are not JSON values: a tuple and a dict with an int key.
JsonValues ==
    { PyNone,
      PyInt(1),
      PyList(<<PyInt(MaxInt), PyStr("x")>>),
      PyDict(<<<<PyStr("name"), PyStr("Ann")>>>>) }

CoercedValues ==
    { PyTuple(<<PyInt(MaxInt), PyStr("x")>>) }

Values == JsonValues \cup CoercedValues

\* A Python set: a value json.dumps has no encoding for.
PySet == [t |-> "set"]

\* Whether json.dumps encodes the value; it raises TypeError otherwise.
RECURSIVE Serializable(_)
Serializable(value) ==
    CASE value.t \in {"NoneType", "bool", "int", "str"} -> TRUE
      [] value.t = "list" ->
            \A n \in 1..Len(value.list) : Serializable(value.list[n])
      [] value.t = "tuple" ->
            \A n \in 1..Len(value.tuple) : Serializable(value.tuple[n])
      [] value.t = "dict" ->
            \A n \in 1..Len(value.dict) :
                /\ value.dict[n][1].t \in {"NoneType", "bool", "int", "str"}
                /\ Serializable(value.dict[n][2])
      [] OTHER -> FALSE

\* Whether a Python value is a JSON value: null, a boolean, a number, a
\* string, a list of JSON values, or a dict of JSON values with string keys.
RECURSIVE IsJson(_)
IsJson(value) ==
    CASE value.t \in {"NoneType", "bool", "int", "str"} -> TRUE
      [] value.t = "list" -> \A n \in 1..Len(value.list) : IsJson(value.list[n])
      [] value.t = "dict" ->
            \A n \in 1..Len(value.dict) :
                value.dict[n][1].t = "str" /\ IsJson(value.dict[n][2])
      [] OTHER -> FALSE

(* --------------------------------------------- json.dumps and json.loads *)

\* JSON text is the sequence of its tokens; a string is three tokens, the
\* quotes and what is between them.
Quoted(str) == <<"\"", str, "\"">>

\* A dict key as json.dumps writes it: a str as it is, an int as its
\* digits, True, False and None as true, false and null.
KeyText(key) ==
    CASE key.t = "int" -> ToString(key.int)
      [] key.t = "bool" -> IF key.bool THEN "true" ELSE "false"
      [] key.t = "NoneType" -> "null"
      [] OTHER -> key.str

\* json.dumps(value) with the default separators ", " and ": ".
RECURSIVE dumps(_)
RECURSIVE dumps_items(_, _)
RECURSIVE dumps_pairs(_, _)
dumps(value) ==
    CASE value.t = "NoneType" -> <<"null">>
      [] value.t = "bool" -> IF value.bool THEN <<"true">> ELSE <<"false">>
      [] value.t = "int" -> <<ToString(value.int)>>
      [] value.t = "str" -> Quoted(value.str)
      [] value.t = "list" -> <<"[">> \o dumps_items(value.list, 1) \o <<"]">>
      [] value.t = "tuple" -> <<"[">> \o dumps_items(value.tuple, 1) \o <<"]">>
      [] value.t = "dict" -> <<"{">> \o dumps_pairs(value.dict, 1) \o <<"}">>

dumps_items(elems, n) ==
    IF n > Len(elems) THEN <<>>
    ELSE (IF n > 1 THEN <<", ">> ELSE <<>>) \o dumps(elems[n]) \o dumps_items(elems, n + 1)

dumps_pairs(pairs, n) ==
    IF n > Len(pairs) THEN <<>>
    ELSE (IF n > 1 THEN <<", ">> ELSE <<>>)
         \o Quoted(KeyText(pairs[n][1])) \o <<": ">> \o dumps(pairs[n][2])
         \o dumps_pairs(pairs, n + 1)

\* json.loads: a recursive-descent reading of the tokens; parse_* give the
\* value read and the tokens left.
IsNumber(tok) == \E n \in 0..MaxInt : ToString(n) = tok
NumberOf(tok) == CHOOSE n \in 0..MaxInt : ToString(n) = tok

\* The pairs of a dict after d[key] = value: the value of a key already
\* there is replaced where it stands, a new key goes to the end.
dict_setitem(pairs, key, value) ==
    IF \E n \in 1..Len(pairs) : pairs[n][1] = key
    THEN [n \in 1..Len(pairs) |->
            IF pairs[n][1] = key THEN <<key, value>> ELSE pairs[n]]
    ELSE Append(pairs, <<key, value>>)

RECURSIVE parse_value(_)
RECURSIVE parse_items(_, _)
RECURSIVE parse_pairs(_, _)
parse_value(toks) ==
    LET tok == Head(toks)
        rest == Tail(toks)
    IN  CASE tok = "null" -> [val |-> PyNone, rest |-> rest]
          [] tok = "true" -> [val |-> PyBool(TRUE), rest |-> rest]
          [] tok = "false" -> [val |-> PyBool(FALSE), rest |-> rest]
          [] tok = "\"" -> [val |-> PyStr(rest[1]), rest |-> SubSeq(rest, 3, Len(rest))]
          [] tok = "[" -> IF Head(rest) = "]"
                          THEN [val |-> PyList(<<>>), rest |-> Tail(rest)]
                          ELSE parse_items(rest, <<>>)
          [] tok = "{" -> IF Head(rest) = "}"
                          THEN [val |-> PyDict(<<>>), rest |-> Tail(rest)]
                          ELSE parse_pairs(rest, <<>>)
          [] OTHER -> [val |-> PyInt(NumberOf(tok)), rest |-> rest]

parse_items(toks, acc) ==
    LET item == parse_value(toks)
        elems == Append(acc, item.val)
    IN  IF Head(item.rest) = "]"
        THEN [val |-> PyList(elems), rest |-> Tail(item.rest)]
        ELSE parse_items(Tail(item.rest), elems)

parse_pairs(toks, acc) ==
    LET key == parse_value(toks)
        item == parse_value(Tail(key.rest))
        pairs == dict_setitem(acc, key.val, item.val)
    IN  IF Head(item.rest) = "}"
        THEN [val |-> PyDict(pairs), rest |-> Tail(item.rest)]
        ELSE parse_pairs(Tail(item.rest), pairs)

loads(text) == parse_value(text).val

(* ---------------------------------------------------- RedisDict: the data *)

\* The threads that use one RedisDict, and the keys they use.
Clients == {"d1", "d2"}

Keys == {"u1", "u2"}

\* The most pairs an update() is given.
MaxPairs == 2

\* The value update() sources carry.
UpdateValues == {PyInt(1), PySet}

\* The defaults get() and setdefault() are given; None is Python's own.
Defaults == {PyNone, PyInt(1)}

\* setdefault() is also given a default that cannot be encoded.
SetDefaults == Defaults \cup {PySet}

\* A hash field that does not exist: no JSON text is empty.
NoField == <<>>

\* No value written (or deleted since).
NoValue == [t |-> "absent"]

(* ------------------------------------------------ the Redis hash commands *)

\* HSET name key value.
RedisHSet(h, key, text) == [h EXCEPT ![key] = text]

\* HGET name key: the text, or None (NoField) when the field is missing.
RedisHGet(h, key) == h[key]

\* HDEL name key: the hash without the field.
RedisHDelField(h, key) == [h EXCEPT ![key] = NoField]

\* HDEL name key: the number of fields removed.
RedisHDelCount(h, key) == IF h[key] = NoField THEN 0 ELSE 1

\* HEXISTS name key.
RedisHExists(h, key) == h[key] # NoField

\* HLEN name.
RedisHLen(h) == Cardinality({k \in DOMAIN h : h[k] # NoField})

\* DEL name: the hash without any field.
RedisDeleteHash(h) == [k \in DOMAIN h |-> NoField]

(* ------------------------------------------------- RedisDict: operations *)
\* Each gives the hash after the call and what the call gives back.

\* __setitem__ through HSETNX: a field that exists keeps its text.
setitem_if_new(h, key, value) ==
    IF Serializable(value)
    THEN [hash |-> IF h[key] = NoField THEN RedisHSet(h, key, dumps(value)) ELSE h,
          ret |-> Return(PyNone)]
    ELSE [hash |-> h, ret |-> Raise("TypeError")]

\* __setitem__: hset(name, key, json.dumps(value)); json.dumps raises
\* before the store is called.
setitem(h, key, value) ==
    IF Serializable(value)
    THEN [hash |-> RedisHSet(h, key, dumps(value)), ret |-> Return(PyNone)]
    ELSE [hash |-> h, ret |-> Raise("TypeError")]

\* __getitem__ that tests the decoded value: a stored null is a missing key.
getitem_null_missing(h, key) ==
    LET value == RedisHGet(h, key)
    IN  IF value = NoField \/ loads(value) = PyNone
        THEN [hash |-> h, ret |-> Raise("KeyError")]
        ELSE [hash |-> h, ret |-> Return(loads(value))]

\* __getitem__: hget; KeyError when it answers None, else json.loads.
getitem(h, key) ==
    LET value == RedisHGet(h, key)
    IN  IF value = NoField
        THEN [hash |-> h, ret |-> Raise("KeyError")]
        ELSE [hash |-> h, ret |-> Return(loads(value))]

\* __delitem__ that tests for the field and never sends the hdel.
delitem_not_sent(h, key) ==
    [hash |-> h,
     ret |-> IF RedisHExists(h, key) THEN Return(PyNone) ELSE Raise("KeyError")]

\* __delitem__ that deletes the whole hash when the field exists.
delitem_whole_hash(h, key) ==
    [hash |-> IF RedisHExists(h, key) THEN RedisDeleteHash(h) ELSE h,
     ret |-> IF RedisHExists(h, key) THEN Return(PyNone) ELSE Raise("KeyError")]

\* __delitem__: hdel; KeyError when nothing was removed.
delitem(h, key) ==
    LET result == RedisHDelCount(h, key)
    IN  [hash |-> RedisHDelField(h, key),
         ret |-> IF result = 0 THEN Raise("KeyError") ELSE Return(PyNone)]

\* __contains__: hexists.
contains(h, key) == [hash |-> h, ret |-> Return(PyBool(RedisHExists(h, key)))]

\* __len__: hlen.
len(h) == [hash |-> h, ret |-> Return(PyInt(RedisHLen(h)))]

\* get(key, default) that stores the default it returns, as setdefault does.
get_storing_default(h, key, default) ==
    IF RedisHGet(h, key) = NoField
    THEN [hash |-> RedisHSet(h, key, dumps(default)), ret |-> Return(default)]
    ELSE [hash |-> h, ret |-> Return(loads(RedisHGet(h, key)))]

\* get(key, default): self[key], and default on KeyError.
get(h, key, default) ==
    LET r == getitem(h, key)
    IN  IF r.ret = Raise("KeyError")
        THEN [hash |-> r.hash, ret |-> Return(default)]
        ELSE r

\* clear() that deletes a key other than self.name: the hash stays.
clear_other_name(h) == [hash |-> h, ret |-> Return(PyNone)]

\* clear(): delete(name).
clear(h) == [hash |-> RedisDeleteHash(h), ret |-> Return(PyNone)]

(* --------------------------------------------------- RedisDict: history *)

\* What one step did: the operation, the client, the key, the value passed
\* (a value to store or a default), what came back, whether the field
\* existed before the step and whether the step changed the hash.
DictEvent(op, c, key, given, r, h) ==
    [op |-> op, client |-> c, key |-> key, given |-> given, ret |-> r.ret,
     present |-> h[key] # NoField, changed |-> r.hash # h]

NoDictEvent ==
    [op |-> "none", client |-> "d1", key |-> "u1", given |-> NoValue,
     ret |-> Return(PyNone), present |-> FALSE, changed |-> FALSE]

\* A setdefault step: as DictEvent, with what the call's existence check
\* answered (found) and, for the write, the step taken just before it.
SetDefaultEvent(op, c, key, default, found, r, h) ==
    [op |-> op, client |-> c, key |-> key, given |-> default, ret |-> r.ret,
     present |-> h[key] # NoField, changed |-> r.hash # h,
     found |-> found,
     prev |-> IF op = "setdefault_write"
              THEN [op |-> lastDict.op, client |-> lastDict.client, key |-> lastDict.key]
              ELSE [op |-> "none", client |-> c, key |-> key]]

\* The steps that write to the hash.
IsWrite(ev) == ev.op \in {"setitem", "delitem", "clear", "update", "setdefault_write"}

\* Two setdefault() calls on one key, one after the other with no other
\* step in between: the first finds the key absent (stage 1), writes (2)
\* and returns (3); the second, with another default, makes its check (4)
\* and returns (5).  rets are the values the calls returned.
NotTwice == [stage |-> 0, client |-> "d1", key |-> "u1", first |-> NoValue, rets |-> <<>>]

TwiceNext(tw, ev) ==
    IF /\ tw.stage = 1 /\ ev.op = "setdefault_write"
       /\ ev.client = tw.client /\ ev.ret = Return(PyNone)
        THEN [tw EXCEPT !.stage = 2]
    ELSE IF tw.stage = 2 /\ ev.op = "setdefault" /\ ev.client = tw.client
        THEN [tw EXCEPT !.stage = 3, !.rets = <<ev.ret>>]
    ELSE IF /\ tw.stage = 3 /\ ev.op = "setdefault_check"
            /\ ev.key = tw.key /\ ev.given # tw.first
        THEN [tw EXCEPT !.stage = 4, !.client = ev.client]
    ELSE IF tw.stage = 4 /\ ev.op = "setdefault" /\ ev.client = tw.client
        THEN [tw EXCEPT !.stage = 5, !.rets = Append(@, ev.ret)]
    ELSE IF ev.op = "setdefault_check" /\ ~ev.present
        THEN [stage |-> 1, client |-> ev.client, key |-> ev.key,
              first |-> ev.given, rets |-> <<>>]
    ELSE NotTwice

\* The history after a step ev.
ObserveDict(ev) ==
    /\ lastDict' = ev
    /\ twice' = TwiceNext(twice, ev)

\* The value last written per key after key is given value.
Written(key, value) ==
    [shadow EXCEPT ![key] =
        [val |-> value, over |-> @.val # NoValue /\ @.val # value]]

Unwritten == [val |-> NoValue, over |-> FALSE]

Idle == [at |-> "idle"]

(* ------------------------------------------------- RedisDict: the steps *)

\* d[key] = value.
SetItem(c, key, value) ==
    /\ dpc[c] = Idle
    /\ LET r == setitem(hash, key, value)
       IN  /\ hash' = r.hash
           /\ ObserveDict(DictEvent("setitem", c, key, value, r, hash))
    /\ shadow' = Written(key, value)
    /\ UNCHANGED dpc
    /\ UNCHANGED <<lockVars, urlVars>>

\* d[key].
GetItem(c, key) ==
    /\ dpc[c] = Idle
    /\ LET r == getitem(hash, key)
       IN  /\ hash' = r.hash
           /\ ObserveDict(DictEvent("getitem", c, key, NoValue, r, hash))
    /\ UNCHANGED <<dpc, shadow>>
    /\ UNCHANGED <<lockVars, urlVars>>

\* del d[key].
DelItem(c, key) ==
    /\ dpc[c] = Idle
    /\ LET r == delitem(hash, key)
       IN  /\ hash' = r.hash
           /\ ObserveDict(DictEvent("delitem", c, key, NoValue, r, hash))
    /\ shadow' = [shadow EXCEPT ![key] = Unwritten]
    /\ UNCHANGED dpc
    /\ UNCHANGED <<lockVars, urlVars>>

\* key in d.
Contains(c, key) ==
    /\ dpc[c] = Idle
    /\ LET r == contains(hash, key)
       IN  /\ hash' = r.hash
           /\ ObserveDict(DictEvent("contains", c, key, NoValue, r, hash))
    /\ UNCHANGED <<dpc, shadow>>
    /\ UNCHANGED <<lockVars, urlVars>>

\* len(d).
Len_(c) ==
    /\ dpc[c] = Idle
    /\ LET r == len(hash)
       IN  /\ hash' = r.hash
           /\ ObserveDict(DictEvent("len", c, "u1", NoValue, r, hash))
    /\ UNCHANGED <<dpc, shadow>>
    /\ UNCHANGED <<lockVars, urlVars>>

\* d.get(key, default).
Get(c, key, default) ==
    /\ dpc[c] = Idle
    /\ LET r == get(hash, key, default)
       IN  /\ hash' = r.hash
           /\ ObserveDict(DictEvent("get", c, key, default, r, hash))
    /\ UNCHANGED <<dpc, shadow>>
    /\ UNCHANGED <<lockVars, urlVars>>

\* d.clear().
Clear(c) ==
    /\ dpc[c] = Idle
    /\ LET r == clear(hash)
       IN  /\ hash' = r.hash
           /\ ObserveDict(DictEvent("clear", c, "u1", NoValue, r, hash))
    /\ shadow' = [k \in Keys |-> Unwritten]
    /\ UNCHANGED dpc
    /\ UNCHANGED <<lockVars, urlVars>>

\* The sources update() is given: the pairs of other followed by those of
\* kwargs, up to MaxPairs pairs in all.  A value that cannot be encoded is
\* the last of its source: update() reads no pair after it.
RECURSIVE PairSeqs(_)
PairSeqs(n) ==
    IF n = 0 THEN {<<>>}
    ELSE LET shorter == PairSeqs(n - 1)
         IN  shorter \cup
             {Append(q, <<k, v>>) :
                q \in {x \in shorter :
                            /\ Len(x) = n - 1
                            /\ \A m \in 1..Len(x) : Serializable(x[m][2])},
                k \in Keys, v \in UpdateValues}

\* The hash after all of pairs are stored.
RECURSIVE HSetAll(_, _)
HSetAll(h, pairs) ==
    IF pairs = <<>> THEN h
    ELSE HSetAll(RedisHSet(h, pairs[1][1], dumps(pairs[1][2])), Tail(pairs))

\* An update that encodes every pair first and stores them in one hset
\* call: all of the pairs are written, or none.
update_all_at_once(h, pairs) ==
    IF \A n \in 1..Len(pairs) : Serializable(pairs[n][2])
    THEN [hash |-> HSetAll(h, pairs), ret |-> Return(PyNone), rest |-> <<>>]
    ELSE [hash |-> h, ret |-> Raise("TypeError"), rest |-> <<>>]

\* update's loop body for the next pair, self[k] = v, and the pairs that
\* are left: none when the set raised, which ends the loop.
update_step(h, pairs) ==
    LET r == setitem(h, pairs[1][1], pairs[1][2])
    IN  [hash |-> r.hash, ret |-> r.ret,
         rest |-> IF r.ret = Return(PyNone) THEN Tail(pairs) ELSE <<>>]

\* d.update(other): the loop's next self[k] = v, up to and including its
\* store call; the call returns after the last pair, or raises what the
\* set raised.
UpdateSet(c, pairs) ==
    LET key == pairs[1][1]
        value == pairs[1][2]
        r == update_step(hash, pairs)
    IN  /\ hash' = r.hash
        /\ ObserveDict(DictEvent("update", c, key, value, r, hash))
        /\ shadow' = IF r.ret = Return(PyNone) THEN Written(key, value) ELSE shadow
        /\ dpc' = [dpc EXCEPT ![c] =
                IF r.rest = <<>> THEN Idle
                ELSE [at |-> "update", rest |-> r.rest]]

\* d.update(other) is called and makes its first store call.
Update(c, other) ==
    /\ dpc[c] = Idle
    /\ other # <<>>
    /\ UpdateSet(c, other)
    /\ UNCHANGED <<lockVars, urlVars>>

\* d.update(other) goes on with its next pair.
UpdateNext(c) ==
    /\ dpc[c].at = "update"
    /\ UpdateSet(c, dpc[c].rest)
    /\ UNCHANGED <<lockVars, urlVars>>

\* A setdefault that writes the default whatever its check found.
setdefault_always_write(found) == "setdefault_write"

\* d.setdefault: `if key not in self` decides whether the write is made.
setdefault_branch(found) ==
    IF found = Return(PyBool(FALSE)) THEN "setdefault_write" ELSE "setdefault_read"

\* d.setdefault(key, default), first store call: key not in self.
SetDefaultCheck(c, key, default) ==
    /\ dpc[c] = Idle
    /\ LET r == contains(hash, key)
       IN  /\ hash' = r.hash
           /\ ObserveDict(DictEvent("setdefault_check", c, key, default, r, hash))
           /\ dpc' = [dpc EXCEPT ![c] =
                [at |-> setdefault_branch(r.ret), key |-> key, default |-> default,
                 found |-> r.ret = Return(PyBool(TRUE))]]
    /\ UNCHANGED shadow
    /\ UNCHANGED <<lockVars, urlVars>>

\* A setdefault that writes through HSETNX: a value that arrived after the
\* check is kept.
setdefault_write_if_new(h, key, default) == setitem_if_new(h, key, default)

\* setdefault's write: self[key] = default.
setdefault_write(h, key, default) == setitem(h, key, default)

\* d.setdefault, the write: self[key] = default.  When the set raises, the
\* call is over: it raises what the set raised.
SetDefaultWrite(c) ==
    /\ dpc[c].at = "setdefault_write"
    /\ LET r == setdefault_write(hash, dpc[c].key, dpc[c].default)
       IN  /\ hash' = r.hash
           /\ ObserveDict(SetDefaultEvent("setdefault_write", c, dpc[c].key,
                                       dpc[c].default, dpc[c].found, r, hash))
           /\ shadow' = IF r.ret = Return(PyNone)
                        THEN Written(dpc[c].key, dpc[c].default)
                        ELSE shadow
           /\ dpc' = [dpc EXCEPT ![c] =
                        IF r.ret = Return(PyNone)
                        THEN [@ EXCEPT !.at = "setdefault_read"]
                        ELSE Idle]
    /\ UNCHANGED <<lockVars, urlVars>>

\* d.setdefault, the end: return self[key].
SetDefaultRead(c) ==
    /\ dpc[c].at = "setdefault_read"
    /\ LET r == getitem(hash, dpc[c].key)
       IN  /\ hash' = r.hash
           /\ ObserveDict(SetDefaultEvent("setdefault", c, dpc[c].key,
                                       dpc[c].default, dpc[c].found, r, hash))
    /\ dpc' = [dpc EXCEPT ![c] = Idle]
    /\ UNCHANGED shadow
    /\ UNCHANGED <<lockVars, urlVars>>

\* After RedisDict.__init__, on a server where the hash does not exist.
DictInit ==
    /\ hash = [k \in Keys |-> NoField]
    /\ dpc = [c \in Clients |-> Idle]
    /\ lastDict = NoDictEvent
    /\ shadow = [k \in Keys |-> Unwritten]
    /\ twice = NotTwice

NextDict ==
    \/ \E c \in Clients, k \in Keys, v \in Values : SetItem(c, k, v)
    \/ \E c \in Clients, k \in Keys : GetItem(c, k)
    \/ \E c \in Clients, k \in Keys : DelItem(c, k)
    \/ \E c \in Clients, k \in Keys : Contains(c, k)
    \/ \E c \in Clients : Len_(c)
    \/ \E c \in Clients, k \in Keys, v \in Defaults : Get(c, k, v)
    \/ \E c \in Clients : Clear(c)
    \/ \E c \in Clients, other \in PairSeqs(MaxPairs) : Update(c, other)
    \/ \E c \in Clients : UpdateNext(c)
    \/ \E c \in Clients, k \in Keys, v \in SetDefaults : SetDefaultCheck(c, k, v)
    \/ \E c \in Clients : SetDefaultWrite(c)
    \/ \E c \in Clients : SetDefaultRead(c)

(* ------------------------------------------------- get_redis_connection *)

\* A URL is the sequence of its parts, delimiters included:
\* scheme "://" [user] [":" password] "@" [host] [":" port] ["/" [db]].
Schemes == {"redis", "REDIS", "http"}

UserInfos == {<<>>, <<"user", "@">>, <<"user", ":", "pw", "@">>, <<":", "pw", "@">>}

Hosts == {<<>>, <<"mynode">>, <<"MyNode">>}

Ports == {<<>>, <<":", "7000">>, <<":", "0">>}

Paths == {<<>>, <<"/">>, <<"/", "2">>}

Urls ==
    { <<s, "://">> \o u \o h \o p \o d :
        s \in Schemes, u \in UserInfos, h \in Hosts, p \in Ports, d \in Paths }

SentinelLists == {<<>>, <<<<"sentinel-1", 26379>>>>}

\* The numbers the URLs above write in decimal.
Numbers == {0, 2, 7000}

\* int(text) for a decimal numeral.
IntOf(text) == CHOOSE n \in Numbers : ToString(n) = text

\* str.lower() on the names above.
Lower(text) ==
    CASE text = "REDIS" -> "redis"
      [] text = "MyNode" -> "mynode"
      [] OTHER -> text

\* The text of a run of parts.
RECURSIVE Text(_)
Text(parts) == IF parts = <<>> THEN "" ELSE Head(parts) \o Text(Tail(parts))

\* The first position of part in parts, 0 when it is not there.
RECURSIVE Find(_, _)
Find(parts, part) ==
    IF parts = <<>> THEN 0
    ELSE IF Head(parts) = part THEN 1
    ELSE LET n == Find(Tail(parts), part) IN IF n = 0 THEN 0 ELSE n + 1

\* The last position of part in parts, 0 when it is not there.
RECURSIVE FindLast(_, _)
FindLast(parts, part) ==
    IF parts = <<>> THEN 0
    ELSE IF parts[Len(parts)] = part THEN Len(parts)
    ELSE FindLast(SubSeq(parts, 1, Len(parts) - 1), part)

Before(parts, n) == SubSeq(parts, 1, n - 1)

After(parts, n) == SubSeq(parts, n + 1, Len(parts))

\* urlsplit's division of the URL: the scheme before "://", the netloc up
\* to the first "/", the path from there on; the netloc is the user
\* information up to its last "@" and the host information after it, each
\* divided at its first ":".  None marks a part that is not written.
split(url) ==
    LET rest == After(url, 2)
        slash == Find(rest, "/")
        netloc == IF slash = 0 THEN rest ELSE Before(rest, slash)
        at == FindLast(netloc, "@")
        userinfo == Before(netloc, at)
        hostinfo == After(netloc, at)
        ucolon == Find(userinfo, ":")
        hcolon == Find(hostinfo, ":")
    IN  [scheme |-> url[1],
         username |-> IF at = 0 THEN PyNone
                      ELSE IF ucolon = 0 THEN PyStr(Text(userinfo))
                      ELSE PyStr(Text(Before(userinfo, ucolon))),
         password |-> IF at = 0 \/ ucolon = 0 THEN PyNone
                      ELSE PyStr(Text(After(userinfo, ucolon))),
         host |-> IF hcolon = 0 THEN Text(hostinfo)
                  ELSE Text(Before(hostinfo, hcolon)),
         port |-> IF hcolon = 0 THEN PyNone
                  ELSE PyStr(Text(After(hostinfo, hcolon))),
         path |-> IF slash = 0 THEN <<>> ELSE SubSeq(rest, slash, Len(rest))]

\* urlparse(url) with the properties of its result: the scheme and the
\* hostname in lower case, hostname None when empty, port an int or None.
urlparse(url) ==
    LET parts == split(url)
    IN  [scheme |-> Lower(parts.scheme),
         username |-> parts.username,
         password |-> parts.password,
         hostname |-> IF parts.host = "" THEN PyNone ELSE PyStr(Lower(parts.host)),
         port |-> IF parts.port \in {PyNone, PyStr("")} THEN PyNone
                  ELSE PyInt(IntOf(parts.port.str)),
         path |-> parts.path]

\* Python's `a or b`: b when a is None, empty or zero.
PyOr(a, b) == IF a \in {PyNone, PyStr(""), PyInt(0)} THEN b ELSE a

\* path.lstrip("/")
RECURSIVE lstrip(_)
lstrip(path) ==
    IF path # <<>> /\ Head(path) = "/" THEN lstrip(Tail(path)) ELSE path

DefaultPort == 6379

parse_redis_sentinel_url(url) ==
    LET parsed_url == urlparse(url)
        db == PyOr(PyStr(Text(lstrip(parsed_url.path))), PyInt(0))
    IN  IF parsed_url.scheme # "redis"
        THEN Raise("ValueError")
        ELSE Return([username |-> PyOr(parsed_url.username, PyNone),
                     password |-> PyOr(parsed_url.password, PyNone),
                     service |-> PyOr(parsed_url.hostname, PyStr("mymaster")),
                     port |-> PyOr(parsed_url.port, PyInt(DefaultPort)),
                     db |-> IF db.t = "int" THEN db ELSE PyInt(IntOf(db.str))])

\* No call made yet.
NotCalled == [t |-> "not called"]

\* get_redis_connection with Sentinel addresses: the URL is parsed, and
\* the connection is Sentinel's master for the service.
ConnectSentinel ==
    /\ returned = NotCalled
    /\ sentinels # <<>>
    /\ LET redis_config == parse_redis_sentinel_url(redis_url)
       IN  returned' =
               IF redis_config.kind = "raise" THEN redis_config
               ELSE Return([via |-> "sentinel.master_for",
                            sentinels |-> sentinels,
                            redis_config |-> redis_config.val])
    /\ UNCHANGED <<redis_url, sentinels>>
    /\ UNCHANGED <<lockVars, dictVars>>

\* get_redis_connection without them: redis.Redis.from_url(redis_url).
ConnectDirect ==
    /\ returned = NotCalled
    /\ sentinels = <<>>
    /\ returned' = Return([via |-> "Redis.from_url", url |-> redis_url])
    /\ UNCHANGED <<redis_url, sentinels>>
    /\ UNCHANGED <<lockVars, dictVars>>

\* get_redis_connection is not called.
UrlNone ==
    /\ redis_url = <<"redis", "://">>
    /\ sentinels = <<>>
    /\ returned = NotCalled

UrlInit ==
    /\ redis_url \in Urls
    /\ sentinels \in SentinelLists
    /\ returned = NotCalled

NextUrl ==
    \/ ConnectSentinel
    \/ ConnectDirect

(* ---------------------------------------------------- the specifications *)

\* The locks alone: the mapping is constructed and not used.
InitLock == LockInit /\ DictInit /\ UrlNone

SpecLock == InitLock /\ [][NextLock]_vars

\* The locks with the longest timeout, on a server where time passes: a
\* second that can pass does pass.  Nothing is assumed of the callers.
InitLockFair == InitLock /\ timeout_secs = [i \in Inst |-> MaxTimeout]

SpecLockFair == InitLockFair /\ [][NextLock]_vars /\ WF_vars(Tick)

\* The mapping alone: the locks are constructed (with the shortest timeout)
\* and not used.
InitDict == LockInit /\ timeout_secs = [i \in Inst |-> 1] /\ DictInit /\ UrlNone

SpecDict == InitDict /\ [][NextDict]_vars

\* The connection alone: the locks and the mapping are constructed and not
\* used.
InitUrl == LockInit /\ timeout_secs = [i \in Inst |-> 1] /\ DictInit /\ UrlInit

SpecUrl == InitUrl /\ [][NextUrl]_vars

(* ------------------------------------------------------ RedisLock: claims *)

Owner(n) == {i \in Inst : lock_name[i] = n}

\* C1. Mutual exclusion: between two moments at which a name's record is
\* absent at most one instance has had aquire_lock() return True, and an
\* aquire_lock() that finds a record (whoever wrote it) returns None.
C1_MutualExclusion ==
    /\ \A n \in LockNames : Cardinality(winners[n]) <= 1
    /\ (lastLock.op = "acquire" /\ lastLock.pre # Nil) => ~Truthy(lastLock.ret)

\* B's aquire_lock() has just failed against the live record A acquired.
C1_Witness ==
    /\ lastLock.op = "acquire" /\ lastLock.inst = "B"
    /\ lastLock.pre # Nil /\ lastLock.pre.val = lock_id["A"]
    /\ winners["job-1"] = {"A"}
    /\ lastLock.ret = "None"

\* C2. Ownership-checked release: release_lock() goes on to its delete only
\* when the value it read is the caller's token; when it read None (no
\* record) or another instance's token the call is over at once and the
\* record, its value and its TTL are as they were.
C2_OwnershipCheckedRelease ==
    /\ \A i \in Inst : pc[i] = "delete" => lock_value[i] = lock_id[i]
    /\ (lastLock.op = "release" /\ lastLock.ret # lock_id[lastLock.inst]) =>
            /\ pc[lastLock.inst] = "idle"
            /\ store[lock_name[lastLock.inst]] = lastLock.pre
    /\ (lastLock.op = "release" /\ lastLock.ret = lock_id[lastLock.inst]) =>
            pc[lastLock.inst] = "delete"

\* A, whose record expired, releases while the record carries B's token.
C2_Witness ==
    /\ lastLock.op = "release" /\ lastLock.inst = "A"
    /\ lock_obtained["A"] = "True"
    /\ lastLock.ret = lock_id["B"]
    /\ store["job-1"].val = lock_id["B"]

\* C3. As claimed: whenever release_lock()'s delete removes a record, the
\* record carries the deleting instance's token at that moment.
C3_RemovedOnlyByOwner ==
    (lastLock.op = "delete" /\ lastLock.pre # Nil) =>
        lastLock.pre.val = lock_id[lastLock.inst]

\* C4. As claimed: a record exists exactly when some instance of the name
\* has lock_obtained true or the TTL of the last acquire/renew is running.
C4_RecordIffHeldOrLive ==
    \A n \in LockNames :
        (store[n] # Nil) <=>
            ((\E i \in Owner(n) : Truthy(lock_obtained[i])) \/ lease[n] > 0)

\* C4, amended. A record exists exactly when the TTL set by the last
\* successful acquire/renew has not run out and no release has deleted the
\* record since, and then the record's TTL is what is left of it; the held
\* flag is not part of it.
C4_RecordIffLeaseLive ==
    \A n \in LockNames :
        /\ (store[n] # Nil) <=> (lease[n] > 0)
        /\ store[n] # Nil => store[n].ttl = lease[n]

\* A still has lock_obtained true although its record has expired.
C4_Witness ==
    /\ store["job-1"] = Nil
    /\ lease["job-1"] = 0
    /\ lock_obtained["A"] = "True"
    /\ lastLock.op = "tick"

\* C5. renew_lock() returns True exactly when a record existed at the call,
\* whoever's token it held; the record then carries the caller's token with
\* a TTL of timeout_secs; with no record it returns None and creates none.
C5_RenewIffExists ==
    lastLock.op = "renew" =>
        LET i == lastLock.inst
            n == lock_name[i]
        IN  /\ Truthy(lastLock.ret) <=> (lastLock.pre # Nil)
            /\ lastLock.pre # Nil =>
                    store[n] = [val |-> lock_id[i], ttl |-> timeout_secs[i]]
            /\ lastLock.pre = Nil => (store[n] = Nil /\ lastLock.ret = "None")

\* A renews the record that B acquired after A's expired, and takes it over.
C5_Witness ==
    /\ lastLock.op = "renew" /\ lastLock.inst = "A"
    /\ lastLock.pre # Nil /\ lastLock.pre.val = lock_id["B"]
    /\ lastLock.ret = "True"
    /\ store["job-1"].val = lock_id["A"]

\* C6. Hand-over: with no expiry in between, X.aquire_lock() on an absent
\* record, Y.aquire_lock(), X.release_lock(), Y.aquire_lock() give True,
\* None, the record removed, True; and the first aquire_lock() after an
\* owner's release removed its record returns True.
C6_HandOver ==
    /\ Len(hand) >= 1 => hand[1].ret = "True"
    /\ Len(hand) >= 2 => hand[2].ret = "None"
    /\ Len(hand) >= 3 => hand[3].ret = lock_id[hand[1].inst]
    /\ Len(hand) >= 4 => hand[4].post = Nil
    /\ Len(hand) >= 5 => hand[5].ret = "True"
    /\ (lastLock.op = "acquire" /\ lastLock.freed) => lastLock.ret = "True"

\* The whole scenario has run, with A as the first holder and B the second.
C6_Witness ==
    /\ Len(hand) = 5
    /\ hand[1].inst = "A" /\ hand[5].inst = "B"
    /\ store["job-1"].val = lock_id["B"]

\* C7. aquire_lock() returns True or None, True exactly when its SET NX
\* created the record (there was none, and now there is the caller's, with
\* a TTL of timeout_secs), and lock_obtained is the value returned.
C7_AcquireResult ==
    lastLock.op = "acquire" =>
        LET i == lastLock.inst
            n == lock_name[i]
        IN  /\ lastLock.ret \in {"True", "None"}
            /\ (lastLock.ret = "True") <=> (lastLock.pre = Nil)
            /\ lastLock.ret = "True" =>
                    store[n] = [val |-> lock_id[i], ttl |-> timeout_secs[i]]
            /\ lastLock.ret = "None" => store[n] = lastLock.pre
            /\ lock_obtained[i] = lastLock.ret

\* B, which held the lock before, has just failed to acquire it.
C7_Witness ==
    /\ lastLock.op = "acquire" /\ lastLock.inst = "B"
    /\ lastLock.ret = "None"
    /\ lock_obtained["B"] = "None"
    /\ winners["job-1"] = {"A"}

\* C18: an aquire_lock() that finds a record fails and changes nothing in
\* the store: the record keeps its value and its remaining TTL, and the
\* lease is not extended.  So for the holder too: called while its own
\* record is live, aquire_lock() returns None and sets lock_obtained to
\* None, though the record still carries its token.
C18_FailedAcquire ==
    (lastLock.op = "acquire" /\ lastLock.pre # Nil) =>
        LET i == lastLock.inst
            n == lock_name[i]
        IN  /\ ~Truthy(lastLock.ret)
            /\ lastLock.post = lastLock.pre
            /\ store = [store EXCEPT ![n] = lastLock.pre]
            /\ lease[n] = lastLock.pre.ttl
            /\ ~Truthy(lock_obtained[i])
            /\ lastLock.pre.val = lock_id[i] => store[n].val = lock_id[i]

\* A, whose record has one second left of its two, has called aquire_lock()
\* again.
C18_Witness ==
    /\ lastLock.op = "acquire" /\ lastLock.inst = "A"
    /\ timeout_secs["A"] = 2
    /\ lastLock.pre = [val |-> lock_id["A"], ttl |-> 1]
    /\ store["job-1"] = [val |-> lock_id["A"], ttl |-> 1]
    /\ lastLock.ret = "None" /\ lock_obtained["A"] = "None"

\* i has just called aquire_lock(); it returned True.
Poll(i) == lastLock.op = "acquire" /\ lastLock.inst = i

Got(i) == Poll(i) /\ Truthy(lastLock.ret)

\* From some point on there is no renew_lock().
NoMoreRenew == <>[](lastLock.op # "renew")

\* Every record is removed in the end.
RecordsRemoved == \A n \in LockNames : (store[n] # Nil) ~> (store[n] = Nil)

\* C19 as stated: if from some point on no instance calls renew_lock(), every
\* record is removed in the end, and every instance that keeps calling
\* aquire_lock() gets True in the end.
C19_EveryPollerAcquires ==
    NoMoreRenew =>
        /\ RecordsRemoved
        /\ \A i \in Inst : []<>Poll(i) => <>Got(i)

\* C19, amended: if from some point on no instance calls renew_lock(), every
\* record is removed in the end; a name whose instances keep calling
\* aquire_lock() is acquired again and again by one of them; and an instance
\* that keeps calling it gets True again and again if, from some point on,
\* no other instance of its name does.
C19_SomePollerAcquires ==
    NoMoreRenew =>
        /\ RecordsRemoved
        /\ \A n \in LockNames :
                []<>(\E i \in Inst : lock_name[i] = n /\ Poll(i))
                    => []<>(\E i \in Inst : lock_name[i] = n /\ Got(i))
        /\ \A i \in Inst :
                ([]<>Poll(i) /\
                 <>[](\A j \in Inst \ {i} : lock_name[j] = lock_name[i] => ~Got(j)))
                    => []<>Got(i)

\* B has acquired the lock that A held and never released: A's record
\* expired.
C19_Witness ==
    /\ Got("B")
    /\ ~lastLock.freed
    /\ winners["job-1"] = {"B"}
    /\ lock_obtained["A"] = "True"
    /\ store["job-1"] = [val |-> lock_id["B"], ttl |-> MaxTimeout]

(* ------------------------------------------------------ RedisDict: claims *)

\* The keys written and not deleted or cleared since.
Live == {k \in Keys : shadow[k].val # NoValue}

\* C8. Round trip: d[k] (and d.get(k)) gives back the JSON value last
\* stored under k, whatever was stored there before it.
C8_RoundTrip ==
    (lastDict.op \in {"getitem", "get"} /\ IsJson(shadow[lastDict.key].val)) =>
        lastDict.ret = Return(shadow[lastDict.key].val)

\* d["u1"] gives the dict that replaced another value of u1.
C8_Witness ==
    /\ lastDict.op = "getitem" /\ lastDict.key = "u1"
    /\ shadow["u1"].over
    /\ shadow["u1"].val = PyDict(<<<<PyStr("name"), PyStr("Ann")>>>>)
    /\ lastDict.ret = Return(PyDict(<<<<PyStr("name"), PyStr("Ann")>>>>))

\* C9. On a key with no entry d[k] raises KeyError and d.get(k, default)
\* returns default, and neither changes the hash.
C9_MissingKey ==
    /\ (lastDict.op = "getitem" /\ ~lastDict.present) =>
            (lastDict.ret = Raise("KeyError") /\ ~lastDict.changed)
    /\ (lastDict.op = "get" /\ ~lastDict.present) =>
            (lastDict.ret = Return(lastDict.given) /\ ~lastDict.changed)
    /\ (lastDict.op \in {"getitem", "get"} /\ ~lastDict.present) =>
            hash[lastDict.key] = NoField

\* d.get("u1", 1) has returned 1 on a mapping that holds only u2.
C9_Witness ==
    /\ lastDict.op = "get" /\ lastDict.key = "u1"
    /\ ~lastDict.present
    /\ lastDict.given = PyInt(1)
    /\ lastDict.ret = Return(PyInt(1))
    /\ hash["u2"] # NoField

\* C10. The fields of the hash are the keys written and not deleted or
\* cleared since; k in d and len(d) answer accordingly.
C10_ContainsAndLength ==
    /\ \A k \in Keys : RedisHExists(hash, k) <=> k \in Live
    /\ RedisHLen(hash) = Cardinality(Live)
    /\ lastDict.op = "contains" =>
            lastDict.ret = Return(PyBool(lastDict.key \in Live))
    /\ lastDict.op = "len" => lastDict.ret = Return(PyInt(Cardinality(Live)))

\* len(d) is 1 after u1 was set twice and while u2 has no entry.
C10_Witness ==
    /\ lastDict.op = "len"
    /\ lastDict.ret = Return(PyInt(1))
    /\ shadow["u1"].over
    /\ shadow["u2"].val = NoValue

\* The JSON text the hash should hold for a key, by the value last written.
TextOf(written) == IF written.val = NoValue THEN NoField ELSE dumps(written.val)

\* C11. Right after d.clear() the hash has no field: len(d) gives 0 and,
\* for every key, k in d gives False and d[k] raises KeyError.
C11_ClearEmpties ==
    lastDict.op = "clear" =>
        /\ len(hash).ret = Return(PyInt(0))
        /\ \A k \in Keys :
            /\ contains(hash, k).ret = Return(PyBool(FALSE))
            /\ getitem(hash, k).ret = Raise("KeyError")

\* d.clear() has just removed a mapping that held u1.
C11_Witness ==
    /\ lastDict.op = "clear"
    /\ lastDict.present /\ lastDict.changed
    /\ hash = [k \in Keys |-> NoField]

\* C12. del d[k] on a key with an entry removes that entry, so that d[k]
\* raises KeyError, and every other key holds what was last written to it;
\* on a key without an entry it raises KeyError and changes nothing.
C12_DeleteOneEntry ==
    lastDict.op = "delitem" =>
        /\ lastDict.present =>
                /\ lastDict.ret = Return(PyNone)
                /\ getitem(hash, lastDict.key).ret = Raise("KeyError")
        /\ ~lastDict.present =>
                (lastDict.ret = Raise("KeyError") /\ ~lastDict.changed)
        /\ \A k \in Keys \ {lastDict.key} : hash[k] = TextOf(shadow[k])

\* del d["u1"] has removed u1 and left the dict stored under u2.
C12_Witness ==
    /\ lastDict.op = "delitem" /\ lastDict.key = "u1"
    /\ lastDict.present
    /\ hash["u1"] = NoField
    /\ hash["u2"] = dumps(PyDict(<<<<PyStr("name"), PyStr("Ann")>>>>))

\* C13: with nothing else writing to the key, a setdefault(k, d1) that finds
\* k absent returns d1 and leaves d1 stored; a following setdefault(k, d2)
\* with d2 # d1 makes no write and returns d1 too, and d1 stays stored.
C13_SetDefaultTwice ==
    /\ twice.stage >= 3 =>
            /\ twice.rets[1] = Return(twice.first)
            /\ hash[twice.key] = dumps(twice.first)
    /\ twice.stage = 4 => dpc[twice.client].at = "setdefault_read"
    /\ twice.stage = 5 => twice.rets[2] = Return(twice.first)

C13_Witness ==
    /\ twice.stage = 5 /\ twice.first = PyInt(1)
    /\ lastDict.op = "setdefault" /\ lastDict.given = PyNone
    /\ twice.rets = <<Return(PyInt(1)), Return(PyInt(1))>>
    /\ hash[twice.key] = dumps(PyInt(1))

\* C14: update() is one set per pair, in the order of the source, with no
\* rollback: a store call of update() writes the pair at the head of what is
\* left and changes no other key; when the set raises, update() stops, the
\* hash keeps what the earlier pairs wrote and the later pairs are not
\* written.
C14_UpdateStep ==
    lastDict'.op = "update" =>
        LET ev == lastDict'
            c == ev.client
        IN  /\ dpc[c].at = "update" => <<ev.key, ev.given>> = dpc[c].rest[1]
            /\ IF ev.ret = Return(PyNone)
               THEN /\ hash' = [hash EXCEPT ![ev.key] = dumps(ev.given)]
                    /\ dpc[c].at = "update" =>
                        IF Len(dpc[c].rest) = 1
                        THEN dpc'[c] = Idle
                        ELSE dpc'[c] = [at |-> "update", rest |-> Tail(dpc[c].rest)]
               ELSE /\ ev.ret = Raise("TypeError")
                    /\ ~Serializable(ev.given)
                    /\ hash' = hash
                    /\ dpc'[c] = Idle

C14_NotTransactional == [][C14_UpdateStep]_vars

\* d1's update() has written u1, the first of its two pairs; u2, the key of
\* the pair it cannot encode, is absent, and d2 is free to make any call.
C14_Witness ==
    /\ lastDict.op = "update" /\ lastDict.client = "d1"
    /\ lastDict.key = "u1" /\ lastDict.given = PyInt(1)
    /\ lastDict.ret = Return(PyNone) /\ lastDict.changed
    /\ dpc["d1"] = [at |-> "update", rest |-> <<<<"u2", PySet>>>>]
    /\ dpc["d2"] = Idle
    /\ hash["u1"] = dumps(PyInt(1))
    /\ hash["u2"] = NoField

\* C16: whatever the other clients do in between, a setdefault(k, d) whose
\* check found k absent writes d and returns d, and one whose check found k
\* present makes no write and returns a value (the one k held).  d is a
\* value json.dumps encodes.
C16_SetDefaultResult ==
    /\ \A c \in Clients : dpc[c].at = "setdefault_write" => ~dpc[c].found
    /\ (lastDict.op = "setdefault_write" /\ Serializable(lastDict.given)) =>
            hash[lastDict.key] = dumps(lastDict.given)
    /\ lastDict.op = "setdefault" =>
            IF ~lastDict.found
            THEN lastDict.ret = Return(lastDict.given)
            ELSE lastDict.ret.kind = "return" /\ ~lastDict.changed

\* C17: setdefault's check and write are two store calls, and the write is
\* unconditional: it is made only after a check that found the key absent,
\* and when another client's d[k] = v was the step just before it, v is
\* there at the write and the write replaces it with the default (a default
\* json.dumps encodes: with any other the write raises and changes nothing).
C17_WriteAfterCheck ==
    lastDict.op = "setdefault_write" =>
        /\ ~lastDict.found
        /\ IF Serializable(lastDict.given)
           THEN /\ lastDict.ret = Return(PyNone)
                /\ hash[lastDict.key] = dumps(lastDict.given)
                /\ shadow[lastDict.key].val = lastDict.given
           ELSE /\ lastDict.ret = Raise("TypeError")
                /\ ~lastDict.changed
                /\ dpc[lastDict.client] = Idle
        /\ (lastDict.prev.op = "setitem" /\ lastDict.prev.key = lastDict.key) =>
                /\ lastDict.present
                /\ lastDict.prev.client # lastDict.client

\* d1's setdefault("u1", 1) found u1 absent, d2 then stored another value
\* under u1, and d1's write has just replaced it with 1.
C17_Witness ==
    /\ lastDict.op = "setdefault_write"
    /\ lastDict.client = "d1" /\ lastDict.key = "u1" /\ lastDict.given = PyInt(1)
    /\ ~lastDict.found
    /\ lastDict.prev = [op |-> "setitem", client |-> "d2", key |-> "u1"]
    /\ lastDict.present /\ lastDict.changed
    /\ shadow["u1"].over
    /\ hash["u1"] = dumps(PyInt(1))

\* C20: a key that holds JSON null is a present key: k in d is True, len(d)
\* counts it, d[k] returns None and does not raise KeyError, d.get(k, default)
\* returns None and not the default, and d.setdefault(k, default) makes no
\* write and returns None.
C20_NullIsPresent ==
    /\ \A k \in Keys : hash[k] = dumps(PyNone) =>
            /\ contains(hash, k).ret = Return(PyBool(TRUE))
            /\ len(hash).ret = Return(PyInt(Cardinality({j \in Keys : hash[j] # NoField})))
            /\ getitem(hash, k).ret = Return(PyNone)
            /\ \A default \in Defaults : get(hash, k, default).ret = Return(PyNone)
            /\ setdefault_branch(contains(hash, k).ret) = "setdefault_read"
    /\ (lastDict.op \in {"getitem", "get", "setdefault"}
            /\ hash[lastDict.key] = dumps(PyNone)) =>
            (lastDict.ret = Return(PyNone) /\ ~lastDict.changed)
    /\ (lastDict.op = "setdefault_check" /\ hash[lastDict.key] = dumps(PyNone)) =>
            /\ lastDict.ret = Return(PyBool(TRUE))
            /\ dpc[lastDict.client].at = "setdefault_read"

\* d.setdefault("u1", 1) found the null stored under u1 and returned None;
\* u1 still holds null.
C20_Witness ==
    /\ lastDict.op = "setdefault" /\ lastDict.key = "u1"
    /\ lastDict.given = PyInt(1)
    /\ lastDict.found /\ ~lastDict.changed
    /\ lastDict.ret = Return(PyNone)
    /\ hash["u1"] = dumps(PyNone)
    /\ len(hash).ret = Return(PyInt(1))

(* ------------------------------------------ get_redis_connection: claims *)

\* C15: with Sentinel addresses given, a URL whose scheme is not redis fails
\* with an error and no connection is made; otherwise the connection is made
\* with the URL's username, password, host (as the service name), port and
\* db as they are written in the URL, and with None, None, 'mymaster', 6379
\* and 0 for those that are not written.  With no Sentinel addresses the URL
\* is handed to Redis.from_url unparsed.
C15_LocatorParsing ==
    returned # NotCalled =>
        LET written == split(redis_url)
            db == Text(lstrip(written.path))
        IN  IF sentinels = <<>>
            THEN returned = Return([via |-> "Redis.from_url", url |-> redis_url])
            ELSE IF Lower(written.scheme) # "redis"
            THEN returned = Raise("ValueError")
            ELSE returned = Return(
                    [via |-> "sentinel.master_for",
                     sentinels |-> sentinels,
                     redis_config |->
                        [username |-> IF written.username = PyStr("") THEN PyNone
                                      ELSE written.username,
                         password |-> IF written.password = PyStr("") THEN PyNone
                                      ELSE written.password,
                         service |-> IF written.host = "" THEN PyStr("mymaster")
                                     ELSE PyStr(written.host),
                         port |-> IF written.port \in {PyNone, PyStr("")}
                                  THEN PyInt(DefaultPort)
                                  ELSE PyInt(IntOf(written.port.str)),
                         db |-> IF db = "" THEN PyInt(0) ELSE PyInt(IntOf(db))]])

====
